---- MODULE Spec2Model ----
(***************************************************************************)
(* Model of website/nsmap.js: the contour layer life cycle                 *)
(* (showStationContours / addContourLayer), the tile load function of the  *)
(* vector tile source, the JSON replacer that rebuilds GeoJSON features    *)
(* from geojson-vt tile records and the zoom dependent line style.         *)
(*                                                                         *)
(* Numbers that the script multiplies and divides (stroke widths, zoom)    *)
(* are exact rationals <<numerator, denominator>>; IEEE rounding of the    *)
(* JavaScript doubles is not represented.                                  *)
(***************************************************************************)
EXTENDS Integers, Sequences, FiniteSets, TLC

VARIABLES layers, contourLayers, requests, tileIndex, getTileCalls, tiles,
          tileLog, stationInput, selectedStation, zoom, styleCall,
          replacerCall

vars == <<layers, contourLayers, requests, tileIndex, getTileCalls, tiles,
          tileLog, stationInput, selectedStation, zoom, styleCall,
          replacerCall>>

layerVars == <<layers, contourLayers, requests, tileIndex, getTileCalls,
               tiles, tileLog, stationInput, selectedStation>>

(* ------------------------------ bounds --------------------------------- *)

MaxRequests == 3

MaxTileLoads == 2

MaxZoom == 12

ZoomDen == 2

MaxParts == 2

(* ----------------------------- rationals ------------------------------- *)

RECURSIVE GCD(_, _)
GCD(a, b) == IF b = 0 THEN a ELSE GCD(b, a % b)

Rat(n, d) == LET g == GCD(n, d) IN IF g = 0 THEN <<0, 1>> ELSE <<n \div g, d \div g>>

RMul(a, b) == Rat(a[1] * b[1], a[2] * b[2])

RDiv(a, b) == Rat(a[1] * b[2], a[2] * b[1])

RLeq(a, b) == a[1] * b[2] <= b[1] * a[2]

(* ------------------------------ stations ------------------------------- *)

\* nsmap.stations: the stations the page has loaded
stations == {"A", "B"}

\* ids a caller may pass to showStationContours; "Z" is not a station
StationIds == stations \cup {"Z"}

NoStation == "null"

getStationById(stationId) ==
    IF stationId \in stations THEN stationId ELSE NoStation

(* --------------------------- tile documents ---------------------------- *)

OsmLayer == 0

NoIndex == "noindex"

NoData == [null |-> TRUE]

NoTile == <<"notile">>

\* tile coordinates as the tile grid of the vector source hands them out
TileCoords == {<<1, 0, -1>>, <<1, 1, -2>>}

Line1 == <<<<0, 0>>, <<4096, 0>>>>

Line2 == <<<<0, 0>>, <<0, 4096>>>>

Line3 == <<<<1, 2>>>>

\* what the geojson-vt index of a station's document returns for (z, x, y)
getTile(doc, z, x, y) ==
    IF doc = "A" /\ <<z, x, y>> = <<1, 0, 0>>
    THEN [features |-> << [type |-> 2, geometry |-> <<Line1>>,
                           tags |-> [value |-> 30, stroke |-> "red",
                                     strokeWidth |-> <<2, 1>>]] >>]
    ELSE IF doc = "B" /\ <<z, x, y>> = <<1, 0, 0>>
    THEN [features |-> << [type |-> 2, geometry |-> <<Line1, Line2>>,
                           tags |-> [value |-> 10, stroke |-> "blue",
                                     strokeWidth |-> <<1, 1>>]] >>]
    ELSE NoData

\* geojsonvt(json, ...): the index is built from the fetched document
geojsonvt(json) == json

(* ------------------------------ replacer ------------------------------- *)

HasGeometry(value) == "geometry" \in DOMAIN value

\* the type the replacer computes from the raw type and the outer length
rawGeometryType(value) ==
    LET rawType == value.type
        geometry == value.geometry
    IN IF rawType = 1 THEN (IF Len(geometry) = 1 THEN "Point" ELSE "MultiPoint")
       ELSE IF rawType = 2 THEN (IF Len(geometry) = 1 THEN "LineString" ELSE "MultiLineString")
       ELSE IF rawType = 3 THEN (IF Len(geometry) = 1 THEN "Polygon" ELSE "MultiPolygon")
       ELSE "undefined"

\* variant: the computed type is used for the geometry
replacer_usesType(value) ==
    IF HasGeometry(value)
    THEN LET type == rawGeometryType(value)
             geometry == value.geometry
         IN [type |-> "Feature",
             geometry |-> [type |-> type,
                           coordinates |-> IF Len(geometry) = 1 THEN geometry ELSE geometry],
             properties |-> value.tags]
    ELSE value

replacer(value) ==
    IF HasGeometry(value)
    THEN LET type == rawGeometryType(value)
             geometry == value.geometry
         IN [type |-> "Feature",
             geometry |-> [type |-> "MultiLineString",
                           coordinates |-> IF Len(geometry) = 1 THEN geometry ELSE geometry],
             properties |-> value.tags]
    ELSE value

(* ----------------------------- line style ------------------------------ *)

Transparent == "rgba(0,0,0,0)"

Values == {0, 1, 5, 10, 20, 30, 60, 90}

Strokes == {"red", "blue"}

StrokeWidths == {<<1, 1>>, <<2, 1>>, <<3, 2>>}

\* attributes of a rendered feature: value, stroke, stroke-width
Features == [value : Values, stroke : Strokes, strokeWidth : StrokeWidths]

\* zoom levels of the view, in steps of 1/ZoomDen
Zooms == {<<n, ZoomDen>> : n \in 0..(MaxZoom * ZoomDen)}

Num(n) == <<n, 1>>

\* variant: the test for 30 comes before the test for 60
lineStyleFunction_tierOrder(feature, viewZoom) ==
    LET strokeWidth == feature.strokeWidth
        value == feature.value
        zoomFactor == <<7, 10>>
        tier ==
            IF value % 30 = 0
            THEN [lineWidth |-> RMul(strokeWidth, <<3, 2>>), color |-> feature.stroke]
            ELSE IF value % 60 = 0
            THEN [lineWidth |-> RMul(strokeWidth, <<5, 2>>), color |-> feature.stroke]
            ELSE IF value % 10 = 0
            THEN (IF RLeq(viewZoom, Num(8))
                  THEN [lineWidth |-> strokeWidth, color |-> Transparent]
                  ELSE IF RLeq(viewZoom, Num(9))
                  THEN [lineWidth |-> RDiv(strokeWidth, <<2, 1>>), color |-> feature.stroke]
                  ELSE [lineWidth |-> RDiv(strokeWidth, <<6, 5>>), color |-> feature.stroke])
            ELSE IF value % 5 = 0
            THEN (IF RLeq(viewZoom, Num(10))
                  THEN [lineWidth |-> strokeWidth, color |-> Transparent]
                  ELSE [lineWidth |-> RDiv(strokeWidth, <<5, 2>>), color |-> feature.stroke])
            ELSE [lineWidth |-> strokeWidth, color |-> feature.stroke]
        lineWidth == IF RLeq(viewZoom, Num(8))
                     THEN RMul(tier.lineWidth, <<9, 10>>)
                     ELSE tier.lineWidth
    IN [color |-> tier.color, width |-> RMul(lineWidth, zoomFactor)]

\* variant: zoom < 9 where the script has zoom <= 9
lineStyleFunction_strictZoom(feature, viewZoom) ==
    LET strokeWidth == feature.strokeWidth
        value == feature.value
        zoomFactor == <<7, 10>>
        tier ==
            IF value % 60 = 0
            THEN [lineWidth |-> RMul(strokeWidth, <<5, 2>>), color |-> feature.stroke]
            ELSE IF value % 30 = 0
            THEN [lineWidth |-> RMul(strokeWidth, <<3, 2>>), color |-> feature.stroke]
            ELSE IF value % 10 = 0
            THEN (IF RLeq(viewZoom, Num(8))
                  THEN [lineWidth |-> strokeWidth, color |-> Transparent]
                  ELSE IF ~RLeq(Num(9), viewZoom)
                  THEN [lineWidth |-> RDiv(strokeWidth, <<2, 1>>), color |-> feature.stroke]
                  ELSE [lineWidth |-> RDiv(strokeWidth, <<6, 5>>), color |-> feature.stroke])
            ELSE IF value % 5 = 0
            THEN (IF RLeq(viewZoom, Num(10))
                  THEN [lineWidth |-> strokeWidth, color |-> Transparent]
                  ELSE [lineWidth |-> RDiv(strokeWidth, <<5, 2>>), color |-> feature.stroke])
            ELSE [lineWidth |-> strokeWidth, color |-> feature.stroke]
        lineWidth == IF RLeq(viewZoom, Num(8))
                     THEN RMul(tier.lineWidth, <<9, 10>>)
                     ELSE tier.lineWidth
    IN [color |-> tier.color, width |-> RMul(lineWidth, zoomFactor)]

\* variant: the 0.9 factor is another branch of the tier chain
lineStyleFunction_dampInTier(feature, viewZoom) ==
    LET strokeWidth == feature.strokeWidth
        value == feature.value
        zoomFactor == <<7, 10>>
        tier ==
            IF value % 60 = 0
            THEN [lineWidth |-> RMul(strokeWidth, <<5, 2>>), color |-> feature.stroke]
            ELSE IF value % 30 = 0
            THEN [lineWidth |-> RMul(strokeWidth, <<3, 2>>), color |-> feature.stroke]
            ELSE IF value % 10 = 0
            THEN (IF RLeq(viewZoom, Num(8))
                  THEN [lineWidth |-> strokeWidth, color |-> Transparent]
                  ELSE IF RLeq(viewZoom, Num(9))
                  THEN [lineWidth |-> RDiv(strokeWidth, <<2, 1>>), color |-> feature.stroke]
                  ELSE [lineWidth |-> RDiv(strokeWidth, <<6, 5>>), color |-> feature.stroke])
            ELSE IF value % 5 = 0
            THEN (IF RLeq(viewZoom, Num(10))
                  THEN [lineWidth |-> strokeWidth, color |-> Transparent]
                  ELSE [lineWidth |-> RDiv(strokeWidth, <<5, 2>>), color |-> feature.stroke])
            ELSE IF RLeq(viewZoom, Num(8))
            THEN [lineWidth |-> RMul(strokeWidth, <<9, 10>>), color |-> feature.stroke]
            ELSE [lineWidth |-> strokeWidth, color |-> feature.stroke]
        lineWidth == tier.lineWidth
    IN [color |-> tier.color, width |-> RMul(lineWidth, zoomFactor)]

lineStyleFunction(feature, viewZoom) ==
    LET strokeWidth == feature.strokeWidth
        value == feature.value
        zoomFactor == <<7, 10>>
        tier ==
            IF value % 60 = 0
            THEN [lineWidth |-> RMul(strokeWidth, <<5, 2>>), color |-> feature.stroke]
            ELSE IF value % 30 = 0
            THEN [lineWidth |-> RMul(strokeWidth, <<3, 2>>), color |-> feature.stroke]
            ELSE IF value % 10 = 0
            THEN (IF RLeq(viewZoom, Num(8))
                  THEN [lineWidth |-> strokeWidth, color |-> Transparent]
                  ELSE IF RLeq(viewZoom, Num(9))
                  THEN [lineWidth |-> RDiv(strokeWidth, <<2, 1>>), color |-> feature.stroke]
                  ELSE [lineWidth |-> RDiv(strokeWidth, <<6, 5>>), color |-> feature.stroke])
            ELSE IF value % 5 = 0
            THEN (IF RLeq(viewZoom, Num(10))
                  THEN [lineWidth |-> strokeWidth, color |-> Transparent]
                  ELSE [lineWidth |-> RDiv(strokeWidth, <<5, 2>>), color |-> feature.stroke])
            ELSE [lineWidth |-> strokeWidth, color |-> feature.stroke]
        lineWidth == IF RLeq(viewZoom, Num(8))
                     THEN RMul(tier.lineWidth, <<9, 10>>)
                     ELSE tier.lineWidth
    IN [color |-> tier.color, width |-> RMul(lineWidth, zoomFactor)]

(* --------------------------- layer life cycle -------------------------- *)

ReqIds == 1..MaxRequests

Range(s) == {s[i] : i \in DOMAIN s}

RECURSIVE RemoveFirst(_, _)
RemoveFirst(s, x) ==
    IF s = <<>> THEN <<>>
    ELSE IF Head(s) = x THEN Tail(s)
    ELSE <<Head(s)>> \o RemoveFirst(Tail(s), x)

\* ol.Map.removeLayer: takes the layer out of the map's layer collection
removeLayer(mapLayers, layer) == RemoveFirst(mapLayers, layer)

\* variant: the loop stops one element early
RECURSIVE removeContourLayers_skipsLast(_, _, _)
removeContourLayers_skipsLast(mapLayers, collection, i) ==
    IF i >= Len(collection) THEN mapLayers
    ELSE removeContourLayers_skipsLast(removeLayer(mapLayers, collection[i]), collection, i + 1)

\* the loop of showStationContours over contourLayers[i], i = 0..length-1
RECURSIVE removeContourLayers(_, _, _)
removeContourLayers(mapLayers, collection, i) ==
    IF i > Len(collection) THEN mapLayers
    ELSE removeContourLayers(removeLayer(mapLayers, collection[i]), collection, i + 1)

Pending(r) == requests[r].state \in {"fetching", "parsing"}

\* addContourLayer(geojsonUrl, map, layerCollection) up to the fetch: the
\* request for the station's document is sent, nothing else changes yet
addContourLayer(stationId) ==
    requests' = Append(requests,
                       [station |-> stationId, state |-> "fetching",
                        pendingAtCall |-> {r \in DOMAIN requests : Pending(r)},
                        layersAtCall |-> contourLayers])

showStationContours(stationId) ==
    /\ Len(requests) < MaxRequests
    /\ layers' = removeContourLayers(layers, contourLayers, 1)
    /\ contourLayers' = <<>>
    /\ IF getStationById(stationId) = NoStation
       THEN \* station.names throws a TypeError: the handler stops here
            UNCHANGED <<requests, stationInput, selectedStation>>
       ELSE /\ stationInput' = getStationById(stationId)
            /\ addContourLayer(stationId)
            /\ selectedStation' = stationId
    /\ UNCHANGED <<tileIndex, getTileCalls, tiles, tileLog, zoom, styleCall, replacerCall>>

\* variant: the layer is registered in the first then, before the index
fetchResolved_registers(r) ==
    /\ r \in DOMAIN requests
    /\ requests[r].state = "fetching"
    /\ requests' = [requests EXCEPT ![r].state = "parsing"]
    /\ layers' = Append(layers, r)
    /\ contourLayers' = Append(contourLayers, r)
    /\ UNCHANGED <<tileIndex, getTileCalls, tiles, tileLog,
                   stationInput, selectedStation, zoom, styleCall, replacerCall>>

\* fetch(geojsonUrl) resolves with a response; response.json() starts
fetchResolved(r) ==
    /\ r \in DOMAIN requests
    /\ requests[r].state = "fetching"
    /\ requests' = [requests EXCEPT ![r].state = "parsing"]
    /\ UNCHANGED <<layers, contourLayers, tileIndex, getTileCalls, tiles, tileLog,
                   stationInput, selectedStation, zoom, styleCall, replacerCall>>

\* fetch(geojsonUrl) rejects (network error): no handler runs
fetchRejected(r) ==
    /\ r \in DOMAIN requests
    /\ requests[r].state = "fetching"
    /\ requests' = [requests EXCEPT ![r].state = "rejected"]
    /\ UNCHANGED <<layers, contourLayers, tileIndex, getTileCalls, tiles, tileLog,
                   stationInput, selectedStation, zoom, styleCall, replacerCall>>

\* response.json() rejects (body is not JSON): the second then is skipped
jsonRejected(r) ==
    /\ r \in DOMAIN requests
    /\ requests[r].state = "parsing"
    /\ requests' = [requests EXCEPT ![r].state = "rejected"]
    /\ UNCHANGED <<layers, contourLayers, tileIndex, getTileCalls, tiles, tileLog,
                   stationInput, selectedStation, zoom, styleCall, replacerCall>>

\* the second then callback: index, source, layer, addLayer, push
contourLayerLoaded(r) ==
    /\ r \in DOMAIN requests
    /\ requests[r].state = "parsing"
    /\ requests' = [requests EXCEPT ![r].state = "applied"]
    /\ tileIndex' = [tileIndex EXCEPT ![r] = geojsonvt(requests[r].station)]
    /\ layers' = Append(layers, r)
    /\ contourLayers' = Append(contourLayers, r)
    /\ UNCHANGED <<getTileCalls, tiles, tileLog, stationInput, selectedStation,
                   zoom, styleCall, replacerCall>>

TotalTileLoads == Cardinality(tileLog)

RECURSIVE MapReplacer(_)
MapReplacer(features) ==
    IF features = <<>> THEN <<>>
    ELSE <<replacer(Head(features))>> \o MapReplacer(Tail(features))

\* tileLoadFunction(tile) of the vector source of layer l, called by the
\* map for a tile of a layer it holds
tileLoadFunction(l, tileCoord) ==
    /\ l \in Range(layers) \ {OsmLayer}
    /\ TotalTileLoads < MaxTileLoads
    /\ LET data == IF tileIndex[l] = NoIndex THEN NoData
                   ELSE getTile(tileIndex[l], tileCoord[1], tileCoord[2], -tileCoord[3] - 1)
           features == MapReplacer(IF data # NoData THEN data.features ELSE <<>>)
       IN /\ tiles' = [tiles EXCEPT ![l][tileCoord] = features]
          /\ getTileCalls' = [getTileCalls EXCEPT ![l][tileCoord] = @ + 1]
          /\ tileLog' = tileLog \cup {[layer |-> l, tileCoord |-> tileCoord,
                                       call |-> getTileCalls[l][tileCoord] + 1,
                                       index |-> tileIndex[l]]}
    /\ UNCHANGED <<layers, contourLayers, requests, tileIndex, stationInput,
                   selectedStation, zoom, styleCall, replacerCall>>

NoCall == [nocall |-> TRUE]

InitLayers ==
    /\ layers = <<OsmLayer>>
    /\ contourLayers = <<>>
    /\ requests = <<>>
    /\ tileIndex = [r \in ReqIds |-> NoIndex]
    /\ getTileCalls = [r \in ReqIds |-> [c \in TileCoords |-> 0]]
    /\ tiles = [r \in ReqIds |-> [c \in TileCoords |-> NoTile]]
    /\ tileLog = {}
    /\ stationInput = ""
    /\ selectedStation = NoStation

InitView == zoom = <<10 * ZoomDen, ZoomDen>>

Init ==
    /\ InitLayers
    /\ InitView
    /\ styleCall = NoCall
    /\ replacerCall = NoCall

Next ==
    \/ \E stationId \in StationIds : showStationContours(stationId)
    \/ \E r \in ReqIds : fetchResolved(r)
    \/ \E r \in ReqIds : fetchRejected(r)
    \/ \E r \in ReqIds : jsonRejected(r)
    \/ \E r \in ReqIds : contourLayerLoaded(r)
    \/ \E l \in ReqIds, c \in TileCoords : tileLoadFunction(l, c)

Spec == Init /\ [][Next]_vars

(* ------------------------- style and replacer runs --------------------- *)

\* the view's zoom changes (user zooms the map)
setZoom(z) ==
    /\ zoom' = z
    /\ UNCHANGED <<layerVars, styleCall, replacerCall>>

\* the vector tile layer asks for the style of a feature
renderFeature(feature) ==
    /\ styleCall' = [feature |-> feature, zoom |-> zoom,
                     style |-> lineStyleFunction(feature, zoom)]
    /\ UNCHANGED <<layerVars, zoom, replacerCall>>

NextStyle ==
    \/ \E z \in Zooms : setZoom(z)
    \/ \E feature \in Features : renderFeature(feature)

SpecStyle == Init /\ [][NextStyle]_vars

Geometries == UNION {[1..n -> {Line1, Line2, Line3}] : n \in 1..MaxParts}

TagSets == {[value |-> 30, stroke |-> "red", strokeWidth |-> <<2, 1>>],
            [value |-> 10, stroke |-> "blue", strokeWidth |-> <<1, 1>>],
            [value |-> 5, stroke |-> "green", strokeWidth |-> <<3, 2>>],
            [value |-> 60, stroke |-> "red", strokeWidth |-> <<1, 1>>]}

\* records of a geojson-vt tile
TileRecords == [type : 1..3, geometry : Geometries, tags : TagSets]

\* values JSON.stringify hands to the replacer: tile records and values
\* without a geometry member
JsonValues == TileRecords \cup {[type |-> "FeatureCollection"]} \cup TagSets

\* JSON.stringify calls the replacer on a value
stringify(value) ==
    /\ replacerCall' = [value |-> value, result |-> replacer(value)]
    /\ UNCHANGED <<layerVars, zoom, styleCall>>

NextGeom == \E value \in JsonValues : stringify(value)

SpecGeom == Init /\ [][NextGeom]_vars

(* ------------------------------- claims -------------------------------- *)

ContourLayersOnMap == {i \in DOMAIN layers : layers[i] # OsmLayer}

Latest(r) == r = Len(requests)

\* C1: at most one contour layer is registered with the map and tracked in
\* contourLayers at any time.
C1_SingleActiveContourSet ==
    /\ Cardinality(ContourLayersOnMap) <= 1
    /\ Len(contourLayers) <= 1

\* C2: when a call for one station is directly followed by a call for
\* another before the first fetch has resolved, then once both have been
\* resolved and applied only the layer of the second call is registered.
C2_LastFetchWins ==
    \A a, b \in DOMAIN requests :
        ( /\ b = a + 1
          /\ a \in requests[b].pendingAtCall
          /\ Latest(b)
          /\ ~Pending(a)
          /\ requests[b].state = "applied" )
        => /\ Range(layers) \ {OsmLayer} = {b}
           /\ Range(contourLayers) = {b}

\* C3: when the fetch (or the parsing) of the latest call fails, the contour
\* layers that were registered when the call was made are still registered
\* with the map and still in contourLayers.
C3_FailureKeepsPreviousSet ==
    \A r \in DOMAIN requests :
        (Latest(r) /\ requests[r].state = "rejected")
        => \A l \in Range(requests[r].layersAtCall) :
               l \in Range(layers) /\ l \in Range(contourLayers)

\* C7: for one vector source, the index is queried at most once per tile
\* coordinate, whatever the sequence of tile requests.
C7_IndexQueriedOncePerTile ==
    \A l \in ReqIds : \A c \in TileCoords : getTileCalls[l][c] <= 1

\* C9: a contour layer is registered with the map only after its fetch has
\* resolved and its index has been built, and every tile load that was
\* served found the index of its layer.
C9_IndexBeforeRegistration ==
    /\ \A l \in Range(layers) \ {OsmLayer} :
           /\ l \in DOMAIN requests
           /\ requests[l].state = "applied"
           /\ tileIndex[l] = requests[l].station
    /\ \A e \in tileLog : e.index # NoIndex /\ e.index = requests[e.layer].station

\* a tile of a registered layer has been loaded while a fetch is in flight
C9_Witness ==
    \E e \in tileLog : \E r \in DOMAIN requests :
        /\ e.layer \in Range(layers)
        /\ Pending(r)
        /\ r # e.layer
        /\ getTileCalls[e.layer][e.tileCoord] >= 1

NoDuplicates(s) == \A i, j \in DOMAIN s : s[i] = s[j] => i = j

\* C10: the layers in contourLayers are exactly the contour layers that are
\* registered with the map, each of them once.
C10_TrackedMatchesMap ==
    /\ NoDuplicates(contourLayers)
    /\ NoDuplicates(layers)
    /\ Range(contourLayers) = Range(layers) \ {OsmLayer}

\* a call has dropped an applied layer while another layer is registered,
\* and some fetch has failed
C10_Witness ==
    /\ contourLayers # <<>>
    /\ \E r \in DOMAIN requests :
           requests[r].state = "applied" /\ r \notin Range(contourLayers)
    /\ \E r \in DOMAIN requests : requests[r].state = "rejected"

Damp(z) == IF RLeq(z, Num(8)) THEN <<9, 10>> ELSE <<1, 1>>

Width(strokeWidth, multiplier, z) ==
    RMul(RMul(RMul(strokeWidth, multiplier), Damp(z)), <<7, 10>>)

\* C4: a multiple of 60 gets the multiplier 2.5 only, a multiple of 30 that
\* is no multiple of 60 gets 1.5 only, at every zoom, and both keep their
\* stored stroke color.
C4_TierPrecedence ==
    styleCall # NoCall =>
        LET f == styleCall.feature
            z == styleCall.zoom
            s == styleCall.style
        IN /\ f.value % 60 = 0 =>
                  s.width = Width(f.strokeWidth, <<5, 2>>, z) /\ s.color = f.stroke
           /\ (f.value % 30 = 0 /\ f.value % 60 # 0) =>
                  s.width = Width(f.strokeWidth, <<3, 2>>, z) /\ s.color = f.stroke

\* a multiple of 60 (also of 30, 10 and 5) styled at a zoom of at most 8
C4_Witness ==
    /\ styleCall # NoCall
    /\ styleCall.feature.value = 60
    /\ RLeq(styleCall.zoom, Num(8))
    /\ styleCall.style.color = styleCall.feature.stroke

\* C5: a multiple of 10 (not of 30) is transparent at zoom <= 8, gets 0.5 at
\* 8 < zoom <= 9 and 1/1.2 above 9; a multiple of 5 (not of 10) is
\* transparent at zoom <= 10 and gets 0.4 above; visible lines keep their
\* stored color.
C5_ZoomTiers ==
    styleCall # NoCall =>
        LET f == styleCall.feature
            z == styleCall.zoom
            s == styleCall.style
        IN /\ (f.value % 10 = 0 /\ f.value % 30 # 0) =>
                  IF RLeq(z, Num(8)) THEN s.color = Transparent
                  ELSE IF RLeq(z, Num(9))
                  THEN s.width = Width(f.strokeWidth, <<1, 2>>, z) /\ s.color = f.stroke
                  ELSE s.width = Width(f.strokeWidth, <<5, 6>>, z) /\ s.color = f.stroke
           /\ (f.value % 5 = 0 /\ f.value % 10 # 0) =>
                  IF RLeq(z, Num(10)) THEN s.color = Transparent
                  ELSE s.width = Width(f.strokeWidth, <<2, 5>>, z) /\ s.color = f.stroke

\* a multiple of 10 styled at exactly zoom 9
C5_Witness ==
    /\ styleCall # NoCall
    /\ styleCall.feature.value = 10
    /\ styleCall.zoom = <<9 * ZoomDen, ZoomDen>>
    /\ styleCall.style.color = styleCall.feature.stroke

TierMultiplier(value, z) ==
    IF value % 60 = 0 THEN <<5, 2>>
    ELSE IF value % 30 = 0 THEN <<3, 2>>
    ELSE IF value % 10 = 0
    THEN (IF RLeq(z, Num(8)) THEN <<1, 1>> ELSE IF RLeq(z, Num(9)) THEN <<1, 2>> ELSE <<5, 6>>)
    ELSE IF value % 5 = 0
    THEN (IF RLeq(z, Num(10)) THEN <<1, 1>> ELSE <<2, 5>>)
    ELSE <<1, 1>>

ShapeOf(kind, n) ==
    IF kind = 1 THEN (IF n = 1 THEN "Point" ELSE "MultiPoint")
    ELSE IF kind = 2 THEN (IF n = 1 THEN "LineString" ELSE "MultiLineString")
    ELSE (IF n = 1 THEN "Polygon" ELSE "MultiPolygon")

====
